---- MODULE Spec2Model ----
(***************************************************************************)
(* Crypto Portfolio Dashboard (dashboard.py): one run of main().           *)
(*                                                                         *)
(*   load_portfolio -> fetch_prices -> per-holding metrics -> print_table  *)
(*   -> totals block                                                       *)
(*                                                                         *)
(* Numbers are integers (exact arithmetic stands for Python floats); a     *)
(* quotient is kept as a fraction [num, den].  A Python exception is a     *)
(* string naming its class; "none" means no exception.                     *)
(***************************************************************************)
EXTENDS Integers, Sequences, FiniteSets, TLC

\* ---------------------------------------------------------------- bounds
\* most records in portfolio.json
MaxHoldings == 2
\* amounts and buy prices range over 0..MaxNum
MaxNum == 1
\* most entries in the JSON object the price service answers with
MaxEntries == 1

SeqUpTo(S, n) == UNION {[1..k -> S] : k \in 0..n}

\* -------------------------------------------------------- JSON values
JNum(n) == [kind |-> "number", n |-> n, s |-> ""]
JStr(s) == [kind |-> "string", n |-> 0, s |-> s]
JNull == [kind |-> "null", n |-> 0, s |-> ""]
\* the key is absent from the object
JMissing == [kind |-> "missing", n |-> 0, s |-> ""]

\* ------------------------------------------------------ static table
CG_IDS ==
  ("BTC" :> "bitcoin") @@ ("ETH" :> "ethereum") @@ ("SOL" :> "solana") @@
  ("USDT" :> "tether") @@ ("BNB" :> "binancecoin") @@ ("XRP" :> "ripple") @@
  ("DOGE" :> "dogecoin") @@ ("TON" :> "the-open-network") @@
  ("ADA" :> "cardano") @@ ("ARB" :> "arbitrum") @@ ("OP" :> "optimism")

\* dict.get's answer for an absent key
None == "<None>"

\* str.upper() on the strings that occur in the model
Upper(s) ==
  CASE s = "eth" -> "ETH"
    [] s = "xyz" -> "XYZ"
    [] OTHER -> s

\* strings float() parses, with their values
NumericStrings == ("0" :> 0) @@ ("1" :> 1)

\* float(v): [exc, v]
Float(v) ==
  CASE v.kind = "number" -> [exc |-> "none", v |-> v.n]
    [] v.kind = "string" ->
         IF v.s \in DOMAIN NumericStrings
         THEN [exc |-> "none", v |-> NumericStrings[v.s]]
         ELSE [exc |-> "ValueError", v |-> 0]
    [] OTHER -> [exc |-> "TypeError", v |-> 0]

\* ------------------------------------------------------ load_portfolio
NoHolding == [symbol |-> "", amount |-> 0, buy_price_usd |-> 0]

\* the body of the normalisation loop for one record: [exc, h]
NormalizeRecord(a) ==
  IF a.symbol.kind = "missing" THEN [exc |-> "KeyError", h |-> NoHolding]
  ELSE IF a.symbol.kind # "string" THEN [exc |-> "AttributeError", h |-> NoHolding]
  ELSE IF a.amount.kind = "missing" THEN [exc |-> "KeyError", h |-> NoHolding]
  ELSE IF Float(a.amount).exc # "none" THEN [exc |-> Float(a.amount).exc, h |-> NoHolding]
  ELSE IF a.buy_price_usd.kind = "missing" THEN [exc |-> "KeyError", h |-> NoHolding]
  ELSE IF Float(a.buy_price_usd).exc # "none"
       THEN [exc |-> Float(a.buy_price_usd).exc, h |-> NoHolding]
  ELSE [exc |-> "none",
        h |-> [symbol |-> Upper(a.symbol.s),
               amount |-> Float(a.amount).v,
               buy_price_usd |-> Float(a.buy_price_usd).v]]

RECURSIVE NormalizeAll(_)
\* the normalisation loop, in file order; the first failing record raises
NormalizeAll(recs) ==
  IF recs = <<>> THEN [exc |-> "none", pf |-> <<>>]
  ELSE LET first == NormalizeRecord(Head(recs))
           rest == NormalizeAll(Tail(recs))
       IN IF first.exc # "none" THEN [exc |-> first.exc, pf |-> <<>>]
          ELSE IF rest.exc # "none" THEN [exc |-> rest.exc, pf |-> <<>>]
          ELSE [exc |-> "none", pf |-> <<first.h>> \o rest.pf]

\* load_portfolio(path): [exc, pf]
LoadPortfolio(file) ==
  CASE file.kind = "missing" -> [exc |-> "FileNotFoundError", pf |-> <<>>]
    [] file.kind = "invalid_json" -> [exc |-> "JSONDecodeError", pf |-> <<>>]
    [] file.kind = "object" -> [exc |-> "TypeError", pf |-> <<>>]
    [] OTHER -> NormalizeAll(file.recs)

\* ------------------------------------------------------- input files
FileSymbols == {"eth", "xyz"}
Nums == 0..MaxNum

WellFormedRecords ==
  {[symbol |-> JStr(s), amount |-> JNum(a), buy_price_usd |-> JNum(b)] :
     s \in FileSymbols, a \in Nums, b \in Nums}

OddRecords ==
  { [symbol |-> JStr(""), amount |-> JNum(1), buy_price_usd |-> JNum(1)],
    [symbol |-> JStr("eth"), amount |-> JStr("1"), buy_price_usd |-> JStr("0")],
    [symbol |-> JMissing, amount |-> JNum(1), buy_price_usd |-> JNum(1)],
    [symbol |-> JNum(1), amount |-> JNum(1), buy_price_usd |-> JNum(1)],
    [symbol |-> JStr("eth"), amount |-> JStr("abc"), buy_price_usd |-> JNum(1)],
    [symbol |-> JStr("eth"), amount |-> JNum(1), buy_price_usd |-> JNull] }

RawRecords == WellFormedRecords \cup OddRecords

Files ==
  {[kind |-> k, recs |-> <<>>] : k \in {"missing", "invalid_json", "object"}}
  \cup {[kind |-> "array", recs |-> r] : r \in SeqUpTo(RawRecords, MaxHoldings)}

\* -------------------------------------------------------- fetch_prices
EmptyPrices == [s \in {} |-> 0]

\* exceptions urlopen() raises, and those resp.read() raises
OpenErrors == {"URLError", "HTTPError", "TimeoutError"}
ReadErrors == {"ConnectionResetError", "IncompleteRead"}
NetworkErrors == OpenErrors \cup ReadErrors

\* except (urllib.error.URLError, TimeoutError, json.JSONDecodeError):
\* HTTPError is a subclass of URLError; ConnectionResetError (an OSError),
\* IncompleteRead (an HTTPException) and UnicodeDecodeError (a ValueError)
\* are subclasses of none of the three.
Caught(e) == e \in {"URLError", "HTTPError", "TimeoutError", "JSONDecodeError"}

\* ids = [CG_IDS[s] for s in symbols if s in CG_IDS]
TranslateIds(syms) == {CG_IDS[s] : s \in syms \cap DOMAIN CG_IDS}

\* IdToSymbol with a default: id_to_symbol.get(cg_id, cg_id.upper())
IdToSymbol_UpperDefault(cg_id) ==
  IF \E k \in DOMAIN CG_IDS : CG_IDS[k] = cg_id
  THEN CHOOSE k \in DOMAIN CG_IDS : CG_IDS[k] = cg_id
  ELSE Upper(cg_id)

\* id_to_symbol.get(cg_id), id_to_symbol the inverse of CG_IDS
IdToSymbol(cg_id) ==
  IF \E k \in DOMAIN CG_IDS : CG_IDS[k] = cg_id
  THEN CHOOSE k \in DOMAIN CG_IDS : CG_IDS[k] = cg_id
  ELSE None

\* one iteration of `for cg_id, payload in data.items()`: [exc, prices]
AddPrice(prices, e) ==
  LET sym == IdToSymbol(e.id) IN
  IF sym = None THEN [exc |-> "none", prices |-> prices]
  ELSE IF e.payload.kind # "object" THEN [exc |-> "TypeError", prices |-> prices]
  ELSE IF e.payload.usd.kind = "missing" THEN [exc |-> "none", prices |-> prices]
  ELSE IF Float(e.payload.usd).exc # "none"
       THEN [exc |-> Float(e.payload.usd).exc, prices |-> prices]
  ELSE [exc |-> "none", prices |-> (sym :> Float(e.payload.usd).v) @@ prices]

RECURSIVE BuildPrices(_, _)
\* the reverse-mapping loop over the entries, in the order of the object
BuildPrices(prices, entries) ==
  IF entries = <<>> THEN [exc |-> "none", prices |-> prices]
  ELSE LET step == AddPrice(prices, Head(entries)) IN
       IF step.exc # "none" THEN [exc |-> step.exc, prices |-> EmptyPrices]
       ELSE BuildPrices(step.prices, Tail(entries))

\* urlopen(...), resp.read().decode("utf-8"), json.loads(raw): the exception
\* the try block raises on response r, "none" when data is bound
TryBlock(r) ==
  CASE r.net # "ok" -> r.net
    [] r.body = "bad_utf8" -> "UnicodeDecodeError"
    [] r.body = "bad_json" -> "JSONDecodeError"
    [] OTHER -> "none"

\* RequestsSent with one retry of a request that raised
RequestsSent_Retry(ids, r) ==
  IF ids = {} THEN <<>>
  ELSE IF r.net \in NetworkErrors THEN <<ids, ids>>
  ELSE <<ids>>

\* the URLs requested by one call: the id lists, in order of the requests
RequestsSent(ids, r) == IF ids = {} THEN <<>> ELSE <<ids>>

\* fetch_prices(symbols) when the service answers r: [exc, live, urls]
FetchPrices(syms, r) ==
  LET ids == TranslateIds(syms)
      urls == RequestsSent(ids, r)
  IN IF ids = {} THEN [exc |-> "none", live |-> EmptyPrices, urls |-> urls]
     ELSE IF TryBlock(r) # "none"
          THEN [exc |-> IF Caught(TryBlock(r)) THEN "none" ELSE TryBlock(r),
                live |-> EmptyPrices, urls |-> urls]
     ELSE IF r.body # "json_object"
          THEN [exc |-> "AttributeError", live |-> EmptyPrices, urls |-> urls]
     ELSE LET built == BuildPrices(EmptyPrices, r.entries) IN
          [exc |-> built.exc, live |-> built.prices, urls |-> urls]

\* ------------------------------------------- answers of the price service
LivePrices == {MaxNum + 1}
ResponseIds == {"ethereum", "bitcoin", "xyz"}

Payloads ==
  {[kind |-> "object", usd |-> JNum(p)] : p \in LivePrices}
  \cup {[kind |-> "object", usd |-> JMissing],
        [kind |-> "object", usd |-> JStr("abc")],
        [kind |-> "number", usd |-> JMissing]}

Entries == [id : ResponseIds, payload : Payloads]

\* a JSON object has each key once
EntryLists ==
  {s \in SeqUpTo(Entries, MaxEntries) :
     \A i, j \in 1..Len(s) : i # j => s[i].id # s[j].id}

NoResponse == [net |-> "none", body |-> "none", entries |-> <<>>]

Responses ==
  {[net |-> e, body |-> "none", entries |-> <<>>] : e \in NetworkErrors}
  \cup {[net |-> "ok", body |-> b, entries |-> <<>>] :
          b \in {"bad_utf8", "bad_json", "json_array"}}
  \cup {[net |-> "ok", body |-> "json_object", entries |-> s] : s \in EntryLists}

\* in what ways the body of r departs from {identifier: {usd: number}}
Defects(r) ==
  {d \in {"bad_utf8", "bad_json"} : r.body = d}
  \cup {d \in {"not_mapping"} : r.body = "json_array"}
  \cup {d \in {"entry_not_mapping"} :
          \E i \in 1..Len(r.entries) : r.entries[i].payload.kind # "object"}
  \cup {d \in {"usd_not_numeric"} :
          \E i \in 1..Len(r.entries) :
             /\ r.entries[i].payload.kind = "object"
             /\ r.entries[i].payload.usd.kind # "missing"
             /\ Float(r.entries[i].payload.usd).exc # "none"}

\* what the run saw of the response: how the network call ended, and the
\* defects of the body
Seen(r) == [net |-> r.net, defects |-> Defects(r)]

\* ------------------------------------------------------------- metrics
\* a / b as a fraction; den = 0 is Python's ZeroDivisionError
Divide(a, b) == [num |-> a, den |-> b]
ZeroPct == [num |-> 0, den |-> 1]

\* ResolvePrice without the fallback default: live.get(sym, 0)
ResolvePrice_ZeroDefault(prices, sym, buy) ==
  IF sym \in DOMAIN prices THEN prices[sym] ELSE 0

\* live.get(sym, buy)
ResolvePrice(prices, sym, buy) ==
  IF sym \in DOMAIN prices THEN prices[sym] ELSE buy

\* PnlPct without the guard: pnl / cost * 100.0
PnlPct_NoGuard(pnl, cost) == Divide(pnl * 100, cost)

\* (pnl / cost * 100.0) if cost else 0.0
PnlPct(pnl, cost) == IF cost # 0 THEN Divide(pnl * 100, cost) ELSE ZeroPct

\* the body of `for a in pf`: the values of the row appended for holding a
ComputeRow(a, prices) ==
  LET live_price == ResolvePrice(prices, a.symbol, a.buy_price_usd)
      cost == a.amount * a.buy_price_usd
      value == a.amount * live_price
      pnl == value - cost
  IN [sym |-> a.symbol, amt |-> a.amount, buy |-> a.buy_price_usd,
      live_price |-> live_price, cost |-> cost, value |-> value,
      pnl |-> pnl, pnl_pct |-> PnlPct(pnl, cost)]

\* rows.append([...])
AppendRow(rs, r) == Append(rs, r)

\* AddValue adding the cost: total_value += cost
AddValue_Cost(total, r) == total + r.cost

\* total_cost += cost ; total_value += value
AddCost(total, r) == total + r.cost
AddValue(total, r) == total + r.value

\* ------------------------------------------------------------- printing
TitleLines == <<"title">>
TotalsLines == <<"Total Cost", "Total Value", "Total PnL">>

\* print_table(rows, headers): [exc, lines]; max(len(h), *()) of an empty
\* rows list is max() of one int, a TypeError raised before any line
PrintTableLines(rs) ==
  IF rs = <<>> THEN [exc |-> "TypeError", lines |-> <<>>]
  ELSE [exc |-> "none",
        lines |-> <<"=", "header", "=">> \o [i \in 1..Len(rs) |-> "row"] \o <<"=">>]

\* ---------------------------------------------------------------- state
VARIABLES
  pc,           \* where main() is: "start", "loaded", "fetched", "title",
                \* "table", "done", or "aborted" (an exception left main)
  exc,          \* the exception that left main(), "none" if none
  raised_in,    \* the step that raised it
  pf,           \* the holdings load_portfolio returned
  symbols,      \* the distinct symbols handed to fetch_prices
  requests,     \* the HTTP requests issued so far (their id lists)
  seen,         \* how the network call ended and the defects of its body
  live,         \* the mapping fetch_prices returned
  rows,         \* the report rows computed so far
  total_cost, total_value, total_pnl, total_pct,
  output        \* the lines printed so far

vars == <<pc, exc, raised_in, pf, symbols, requests, seen, live, rows,
          total_cost, total_value, total_pnl, total_pct, output>>

Init ==
  /\ pc = "start"
  /\ exc = "none"
  /\ raised_in = "none"
  /\ pf = <<>>
  /\ symbols = {}
  /\ requests = <<>>
  /\ seen = Seen(NoResponse)
  /\ live = EmptyPrices
  /\ rows = <<>>
  /\ total_cost = 0
  /\ total_value = 0
  /\ total_pnl = 0
  /\ total_pct = ZeroPct
  /\ output = <<>>

\* pf = load_portfolio(PORTFOLIO_FILE), for any content of the file
Load ==
  /\ pc = "start"
  /\ \E file \in Files :
       LET res == LoadPortfolio(file) IN
       /\ pf' = res.pf
       /\ exc' = res.exc
       /\ raised_in' = IF res.exc = "none" THEN "none" ELSE "load"
       /\ pc' = IF res.exc = "none" THEN "loaded" ELSE "aborted"
  /\ UNCHANGED <<symbols, requests, seen, live, rows, total_cost, total_value,
                 total_pnl, total_pct, output>>

\* symbols = sorted({a["symbol"] for a in pf}); live = fetch_prices(symbols),
\* for any answer of the price service; rows, total_cost, total_value reset
Fetch ==
  /\ pc = "loaded"
  /\ symbols' = {pf[i].symbol : i \in 1..Len(pf)}
  /\ \E r \in (IF TranslateIds(symbols') = {} THEN {NoResponse} ELSE Responses) :
       LET res == FetchPrices(symbols', r) IN
       /\ requests' = requests \o res.urls
       /\ seen' = Seen(r)
       /\ live' = res.live
       /\ exc' = res.exc
       /\ raised_in' = IF res.exc = "none" THEN "none" ELSE "fetch"
       /\ pc' = IF res.exc = "none" THEN "fetched" ELSE "aborted"
  /\ rows' = <<>>
  /\ total_cost' = 0
  /\ total_value' = 0
  /\ UNCHANGED <<pf, total_pnl, total_pct, output>>

\* one iteration of `for a in pf`
Compute ==
  /\ pc = "fetched"
  /\ Len(rows) < Len(pf)
  /\ LET r == ComputeRow(pf[Len(rows) + 1], live) IN
     IF r.pnl_pct.den = 0
     THEN /\ pc' = "aborted"
          /\ exc' = "ZeroDivisionError"
          /\ raised_in' = "compute"
          /\ UNCHANGED <<rows, total_cost, total_value>>
     ELSE /\ rows' = AppendRow(rows, r)
          /\ total_cost' = AddCost(total_cost, r)
          /\ total_value' = AddValue(total_value, r)
          /\ UNCHANGED <<pc, exc, raised_in>>
  /\ UNCHANGED <<pf, symbols, requests, seen, live, total_pnl, total_pct, output>>

\* print("\n... Crypto Portfolio Dashboard\n"), once the loop has ended
PrintTitle ==
  /\ pc = "fetched"
  /\ Len(rows) = Len(pf)
  /\ output' = output \o TitleLines
  /\ pc' = "title"
  /\ UNCHANGED <<exc, raised_in, pf, symbols, requests, seen, live, rows,
                 total_cost, total_value, total_pnl, total_pct>>

\* print_table(rows, headers)
PrintTable ==
  /\ pc = "title"
  /\ LET res == PrintTableLines(rows) IN
       /\ output' = output \o res.lines
       /\ exc' = res.exc
       /\ raised_in' = IF res.exc = "none" THEN "none" ELSE "print_table"
       /\ pc' = IF res.exc = "none" THEN "table" ELSE "aborted"
  /\ UNCHANGED <<pf, symbols, requests, seen, live, rows, total_cost,
                 total_value, total_pnl, total_pct>>

\* total_pnl, total_pct and the three summary lines
PrintTotals ==
  /\ pc = "table"
  /\ total_pnl' = total_value - total_cost
  /\ total_pct' = PnlPct(total_value - total_cost, total_cost)
  /\ IF PnlPct(total_value - total_cost, total_cost).den = 0
     THEN /\ pc' = "aborted"
          /\ exc' = "ZeroDivisionError"
          /\ raised_in' = "totals"
          /\ UNCHANGED output
     ELSE /\ pc' = "done"
          /\ output' = output \o TotalsLines
          /\ UNCHANGED <<exc, raised_in>>
  /\ UNCHANGED <<pf, symbols, requests, seen, live, rows, total_cost, total_value>>

Next == Load \/ Fetch \/ Compute \/ PrintTitle \/ PrintTable \/ PrintTotals

Spec == Init /\ [][Next]_vars

\* =============================================================== claims
Ended == pc \in {"done", "aborted"}
LoopEnded == pc \in {"title", "table", "done"}
FetchReturned == pc \in {"fetched", "title", "table", "done"}

\* the whole report for n holdings: title, bordered table, summary lines
CompleteReport(n) ==
  <<"title", "=", "header", "=">> \o [i \in 1..n |-> "row"]
  \o <<"=", "Total Cost", "Total Value", "Total PnL">>

\* every row computed so far shows the holding's own buy price
AllRowsFallBack ==
  \A i \in 1..Len(rows) : rows[i].live_price = pf[i].buy_price_usd

RECURSIVE SumCost(_)
SumCost(rs) ==
  IF rs = <<>> THEN 0 ELSE Head(rs).amt * Head(rs).buy + SumCost(Tail(rs))

RECURSIVE SumValue(_)
SumValue(rs) ==
  IF rs = <<>> THEN 0 ELSE Head(rs).amt * Head(rs).live_price + SumValue(Tail(rs))

RECURSIVE SumPnl(_)
SumPnl(rs) == IF rs = <<>> THEN 0 ELSE Head(rs).pnl + SumPnl(Tail(rs))

\* C1: when the network call fails (urlopen or resp.read() raises), no
\* exception leaves fetch_prices, it returns the empty mapping, and the run
\* goes on to print the complete report with every row at its buy price.
C1_NetworkFailureNeverPropagates ==
  seen.net \in NetworkErrors =>
    /\ pc # "aborted"
    /\ live = EmptyPrices
    /\ AllRowsFallBack
    /\ pc = "done" => output = CompleteReport(Len(pf))

\* C2: when the body arrived but is not of the shape {id: {usd: number}},
\* no exception leaves fetch_prices, it returns the empty mapping and every
\* row falls back to its buy price.
C2_ParseFailureNeverPropagates ==
  (seen.net = "ok" /\ seen.defects # {}) =>
    /\ pc # "aborted"
    /\ live = EmptyPrices
    /\ AllRowsFallBack

\* C3: the keys of the mapping fetch_prices returned are among the symbols
\* it was asked for, whatever the service answered.
C3_OnlyRequestedSymbols == DOMAIN live \subseteq symbols

\* C4: at the end of a run the console shows nothing or the complete
\* report, and a failure of the load step comes before any request and any
\* output.
C4_NoPartialReport ==
  /\ Ended => (output = <<>> \/ output = CompleteReport(Len(pf)))
  /\ raised_in = "load" => (requests = <<>> /\ output = <<>>)

\* C5: every holding load_portfolio returned has a non-empty symbol (its
\* amount and buy price are numbers); a file with such a record fails the
\* load step.
C5_HoldingsWellFormed ==
  (pc # "start" /\ raised_in # "load") =>
    \A i \in 1..Len(pf) :
      /\ pf[i].symbol # ""
      /\ pf[i].amount \in Int
      /\ pf[i].buy_price_usd \in Int

\* C6: a run issues at most one HTTP request: none before fetch_prices is
\* called, none (and an empty mapping) when no holding's symbol is a key of
\* CG_IDS, exactly one otherwise, also when that request failed.
C6_AtMostOneRequest ==
  /\ Len(requests) <= 1
  /\ pc \in {"start", "loaded"} => requests = <<>>
  /\ (pc \notin {"start", "loaded"} /\ raised_in # "load") =>
       Len(requests) =
         IF \E i \in 1..Len(pf) : pf[i].symbol \in DOMAIN CG_IDS THEN 1 ELSE 0
  /\ (FetchReturned /\ requests = <<>>) => live = EmptyPrices

\* a run whose only request failed, and which ended without another one
C6_Witness ==
  /\ pc = "done"
  /\ seen.net \in OpenErrors
  /\ Len(requests) = 1

\* C7: a holding whose symbol is not a key of CG_IDS is never a key of the
\* fetched mapping, and its row shows its buy price.
C7_UnlistedSymbolFallsBack ==
  \A i \in 1..Len(pf) :
    pf[i].symbol \notin DOMAIN CG_IDS =>
      /\ pf[i].symbol \notin DOMAIN live
      /\ i <= Len(rows) => rows[i].live_price = pf[i].buy_price_usd

\* a finished report with live data, holding an unlisted symbol at a buy
\* price no live price equals
C7_Witness ==
  /\ pc = "done"
  /\ live # EmptyPrices
  /\ \E i \in 1..Len(rows) :
       /\ pf[i].symbol = "XYZ"
       /\ rows[i].live_price = pf[i].buy_price_usd
       /\ rows[i].live_price \notin LivePrices

\* C8: row i is the row of holding i; its price is the live price when the
\* holding's symbol is a key of the fetched mapping and its buy price
\* otherwise; when the loop has ended there is one row per holding.
C8_RowPerHoldingInOrder ==
  /\ Len(rows) <= Len(pf)
  /\ LoopEnded => Len(rows) = Len(pf)
  /\ \A i \in 1..Len(rows) :
       /\ rows[i].sym = pf[i].symbol
       /\ rows[i].amt = pf[i].amount
       /\ rows[i].buy = pf[i].buy_price_usd
       /\ pf[i].symbol \in DOMAIN live => rows[i].live_price = live[pf[i].symbol]
       /\ pf[i].symbol \notin DOMAIN live => rows[i].live_price = pf[i].buy_price_usd

\* two lots of one symbol with different buy prices, both at the live price,
\* next to a holding that fell back
C8_Witness ==
  /\ pc = "done"
  /\ Len(rows) = 2
  /\ pf[1].symbol = "ETH" /\ pf[2].symbol = "ETH"
  /\ pf[1].buy_price_usd # pf[2].buy_price_usd
  /\ "ETH" \in DOMAIN live
  /\ rows[1].live_price = live["ETH"] /\ rows[2].live_price = live["ETH"]
  /\ rows[1].live_price # rows[1].buy

\* C9: the totals are the sums over the rows: total cost of amount * buy
\* price, total value of amount * resolved price, and, once computed, total
\* PnL of the rows' PnL.
C9_TotalsAreSums ==
  /\ total_cost = SumCost(rows)
  /\ total_value = SumValue(rows)
  /\ pc = "done" => total_pnl = SumPnl(rows)
  /\ \A i \in 1..Len(rows) :
       /\ rows[i].cost = rows[i].amt * rows[i].buy
       /\ rows[i].value = rows[i].amt * rows[i].live_price
       /\ rows[i].pnl = rows[i].value - rows[i].cost

\* a finished report of two rows, one with a gain, with different totals
C9_Witness ==
  /\ pc = "done"
  /\ Len(rows) = 2
  /\ rows[1].pnl # 0
  /\ rows[2].cost # 0
  /\ total_pnl # 0
  /\ total_value # total_cost

\* C10: a row's PnL percent is 0 when its cost is 0, whatever its value,
\* and pnl / cost * 100 otherwise; the total percent follows the same rule
\* against total cost; no division by zero ever happens.
C10_ZeroCostGuard ==
  /\ exc # "ZeroDivisionError"
  /\ \A i \in 1..Len(rows) :
       /\ rows[i].pnl_pct.den # 0
       /\ rows[i].cost = 0 => rows[i].pnl_pct.num = 0
       /\ rows[i].cost # 0 =>
            rows[i].pnl_pct.num * rows[i].cost
              = rows[i].pnl * 100 * rows[i].pnl_pct.den
  /\ Ended => total_pct.den # 0
  /\ pc = "done" =>
       /\ total_cost = 0 => total_pct.num = 0
       /\ total_cost # 0 =>
            total_pct.num * total_cost = total_pnl * 100 * total_pct.den

\* a finished report with a row of cost 0 and a value above 0 (a live price
\* on a holding bought at 0), and a total cost of 0
C10_Witness ==
  /\ pc = "done"
  /\ total_cost = 0
  /\ total_value # 0
  /\ \E i \in 1..Len(rows) :
       /\ rows[i].cost = 0
       /\ rows[i].value # 0
       /\ rows[i].pnl_pct.num = 0

====
